---- MODULE Spec2Model ----
(***************************************************************************)
(* A model of the chat server of furkangunsever/socket_based_messaging.    *)
(*                                                                         *)
(* Two transports live in the repository and both are modelled:            *)
(*   - the socket transport: ChatServer (src/main.py) with one handler     *)
(*     thread per client, RoomManager (src/handlers/room_manager.py) and   *)
(*     MessageHandler (src/handlers/message_handler.py);                   *)
(*   - the event transport: the coroutines of src/app/sockets/*.py.        *)
(*                                                                         *)
(* Specifications:                                                         *)
(*   SpecRM   - RoomManager driven through its public methods in any order *)
(*              by any thread (the most general caller);                   *)
(*   Spec     - ChatServer: handler threads stepping through               *)
(*              handle_client, handle_command and handle_disconnection for *)
(*              clients that authenticate and send room commands;          *)
(*   SpecChat - ChatServer: clients that authenticate and post messages;   *)
(*   SpecEdit - ChatServer: clients that post, update and delete messages  *)
(*              and disconnect;                                            *)
(*   SpecEv   - the event transport's coroutines, every await a point      *)
(*              where another coroutine may run;                           *)
(*   SpecPw   - the password checks of both transports, side by side;      *)
(*   SpecDel  - ChatServer: four clients that create a room and delete it; *)
(*   SpecLive - ChatServer under fair handler threads: clients that go idle*)
(*              and are swept, and sends that fail during a fan-out;       *)
(*   SpecAuth - ChatServer: clients that choose their usernames freely;    *)
(*   SpecEvMsg - the event transport's message events;                     *)
(*   SpecDev  - ChatServer: clients that send a device id, disconnect and  *)
(*              come back;                                                 *)
(*   SpecEvNames - the event transport: rooms created by name;             *)
(*   SpecIds  - ChatServer: chat frames that bring their own messageId;    *)
(*   SpecOrder - ChatServer: two publishers and a listener in one room;    *)
(*   SpecEvDrop - the event transport: sessions dropped in mid-event;      *)
(*   SpecMH   - MessageHandler and RoomManager driven by any caller;       *)
(*   SpecMove - ChatServer: clients that edit messages and change rooms;   *)
(*   SpecRehome - ChatServer under fair handler threads: a room that is    *)
(*              deleted under an occupant;                                 *)
(*   SpecLock - RoomManager: threads that use both broadcast methods.      *)
(***************************************************************************)
EXTENDS Integers, Sequences, FiniteSets, TLC

\* ------------------------------------------------------------------ bounds

\* client sockets (socket transport) that can ever be accepted
NumSockets == 4
\* client sockets that connect while chat messages are studied
NumChatSockets == 3
\* chat frames (message / update / delete) the clients send in all
MaxChatFrames == 2
\* client sockets that connect while room commands are studied
NumCmdSockets == 2
\* event-transport session ids
NumSids == 2
\* event-transport room ids that handle_create_room can hand out
NumEvRooms == 2

\* ------------------------------------------------------------ value sets

\* Python's None
None == "None"

\* The default room of the socket transport.
Genel == "Genel"

RoomNames == {Genel, "R1"}

\* room_type values a create_room command may carry ("secret" is invalid)
RoomTypes == {"public", "private", "secret"}

\* passwords a frame may carry: absent, empty, or a string
Passwords == {None, "", "pw1", "pw2"}

\* the names the clients of Spec pick, and those of SpecChat
CmdUsernames == {"alice", "SERVER"}

ChatUsernames == {"alice", "bob"}

\* A username is a base and a suffix: "alice" is <<"alice", 0>>, "alice_2" is
\* <<"alice", 2>> and the placeholder "Misafir-3" is <<"Misafir-", 3>>.
UName(base) == <<base, 0>>

SERVER == UName("SERVER")

Sockets == 1 .. NumSockets

\* Python truthiness of an optional string: `not x`
Falsy(x) == x \in {None, ""}

\* dict.get(k) with the default None
Get(d, k) == IF k \in DOMAIN d THEN d[k] ELSE None

\* del d[k]
Del(d, k) == [x \in DOMAIN d \ {k} |-> d[x]]

\* d[k] = v
Put(d, k, v) == [x \in DOMAIN d \cup {k} |-> IF x = k THEN v ELSE d[x]]

\* ----------------------------------------------------------------- state

VARIABLES
    \* RoomManager
    rooms,            \* self.rooms: room name -> Room
    client_rooms,     \* self.client_rooms: socket -> room name
    lock,             \* self.lock: 0 free, else the thread holding it
    sending,          \* the fan-out running inside Room.broadcast, or NoSend
    delivered,        \* frames handed to socket.send: socket -> sequence
    rm_last,          \* history: the call of SpecRM's caller that returned last
    pw_last,          \* history: the last call of Room.check_password
    \* ChatServer
    clients,          \* self.clients: socket -> username
    pc,               \* where each socket's handler thread stands
    cur,              \* the frame a handler is working on, and its locals
    chat_left,        \* chat frames the clients may still send
    device_ids,       \* self.clients[socket][2]: socket -> device id
    disconnected_clients, \* self.disconnected_clients: device id -> record
    \* MessageHandler
    room_messages,    \* self.room_messages: room name -> message ids, in order
    message_lookup,   \* self.message_lookup: message id -> (room, message)
    deleted_messages, \* self.deleted_messages
    message_history,  \* self.message_history: message id -> earlier contents
    next_id,          \* the next uuid4 a message is given
    append_occ,       \* history: the occupants of the room when a message
                      \* was appended to its log
    \* event transport (src/app/sockets)
    active_connections, \* sid -> the user's room_id (0: None, in no room)
    active_rooms,     \* room id -> [name, type, password_hash, created_by]
    sio_rooms,        \* sid -> the rooms sio.enter_room put it in
    ev_pc,            \* the await each sid's coroutine is suspended at
    ev_cur,           \* the locals of that coroutine
    ev_last,          \* history: the last admission decision of handle_join_room
    roomless_seen,    \* history: sids a reader found in no room in mid-move
    ev_room_messages, \* room.py room_messages: room id -> message ids, in order
    message_by_id,    \* message.py message_by_id: message id -> Message
    ev_replay,        \* history: the messages of the last room_info emit
    ev_notice         \* history: the last message_updated / message_deleted

rmVars == <<rooms, client_rooms, lock, sending, delivered, rm_last, pw_last>>

devVars == <<device_ids, disconnected_clients>>

srvVars == <<clients, pc, cur, chat_left, devVars>>

msgVars == <<room_messages, message_lookup, deleted_messages, message_history,
             next_id, append_occ>>

evMsgVars == <<ev_room_messages, message_by_id, ev_replay, ev_notice>>

evVars == <<active_connections, active_rooms, sio_rooms, ev_pc, ev_cur,
           ev_last, roomless_seen, evMsgVars>>

vars == <<rmVars, srvVars, msgVars, evVars>>

\* A frame handed to socket.send: what it is, the socket whose handler emitted
\* it (0: the accept loop) and the message it is about (0: none).
Fr(kind, by, id) == [kind |-> kind, by |-> by, id |-> id]

NoFr == Fr(None, 0, 0)

NoSend == [room |-> None, to |-> {}, frame |-> NoFr]

\* Room.__init__
Room(room_type, password, created_by) ==
    [room_type |-> room_type, password |-> password,
     created_by |-> created_by, clients |-> {}]

\* ------------------------------------------------------------------ Room

\* Room.add_client: False when the socket is already listed
add_client_ok(room, s) == s \notin room.clients

add_client(room, s) == [room EXCEPT !.clients = @ \cup {s}]

\* Room.remove_client
remove_client_ok(room, s) == s \in room.clients

room_remove_client(room, s) == [room EXCEPT !.clients = @ \ {s}]

\* Room.check_password
check_password(room, password) ==
    IF room.room_type = "public" THEN TRUE
    ELSE IF Falsy(room.password) THEN FALSE
    ELSE room.password = password

\* ----------------------------------------------------------- RoomManager

\* methods that do not wait for the lock
lock_ignored == TRUE

\* `with self.lock:` - threading.Lock is not re-entrant: whoever enters needs it
\* free, the holder included
lock_free == lock = 0

\* RoomManager.create_room: which return the call takes
create_room_result(room_name, room_type, password) ==
    IF room_name \in DOMAIN rooms THEN "exists"
    ELSE IF room_type \notin {"public", "private"} THEN "badtype"
    ELSE IF room_type = "private" /\ Falsy(password) THEN "nopassword"
    ELSE "ok"

\* RoomManager.create_room: self.rooms after the call
create_room(room_name, room_type, password, created_by) ==
    IF create_room_result(room_name, room_type, password) = "ok"
    THEN Put(rooms, room_name, Room(room_type, password, created_by))
    ELSE rooms

\* RoomManager.delete_room: which return the call takes
delete_room_result(room_name) ==
    IF room_name = Genel THEN "protected"
    ELSE IF room_name \notin DOMAIN rooms THEN "notfound"
    ELSE "ok"

\* RoomManager.delete_room: affected_clients
delete_room_affected(room_name) ==
    IF delete_room_result(room_name) = "ok" THEN rooms[room_name].clients ELSE {}

\* a delete_room that forgets to detach the occupants
delete_room_keeps_client_rooms(room_name) == client_rooms

\* RoomManager.delete_room: self.client_rooms after the call
delete_room_client_rooms(room_name) ==
    [s \in {c \in DOMAIN client_rooms :
                ~(c \in delete_room_affected(room_name)
                  /\ client_rooms[c] = room_name)} |-> client_rooms[s]]

\* RoomManager.delete_room: self.rooms after the call
delete_room_rooms(room_name) ==
    IF delete_room_result(room_name) = "ok" THEN Del(rooms, room_name) ELSE rooms

\* RoomManager.join_room: which return the call takes
join_room_result(s, room_name, password) ==
    IF room_name \notin DOMAIN rooms THEN "notfound"
    ELSE IF ~check_password(rooms[room_name], password) THEN "denied"
    ELSE IF Get(client_rooms, s) = room_name THEN "already"
    ELSE IF add_client_ok(rooms[room_name], s) THEN "ok"
    ELSE "addfailed"

\* a join_room that does not take the socket out of its previous room
join_room_stays(s, room_name) == rooms

\* RoomManager.join_room: self.rooms after the previous room was left
join_room_left(s, room_name) ==
    LET current_room_name == Get(client_rooms, s) IN
    IF current_room_name # None /\ current_room_name \in DOMAIN rooms
    THEN [rooms EXCEPT ![current_room_name] = room_remove_client(@, s)]
    ELSE rooms

\* RoomManager.join_room: self.rooms after the call
join_room_rooms(s, room_name, password) ==
    LET r == join_room_result(s, room_name, password) IN
    IF r = "ok"
    THEN [join_room_left(s, room_name) EXCEPT ![room_name] = add_client(@, s)]
    ELSE IF r = "addfailed" THEN join_room_left(s, room_name)
    ELSE rooms

\* a join_room that does not record the room of the socket
join_room_maps_nobody(s, room_name, password) == client_rooms

\* RoomManager.join_room: self.client_rooms after the call
join_room_client_rooms(s, room_name, password) ==
    IF join_room_result(s, room_name, password) = "ok"
    THEN Put(client_rooms, s, room_name)
    ELSE client_rooms

\* RoomManager.leave_room: which return the call takes
leave_room_result(s) ==
    LET room_name == Get(client_rooms, s) IN
    IF room_name = None THEN "noroom"
    ELSE IF room_name \notin DOMAIN rooms THEN "notfound"
    ELSE IF remove_client_ok(rooms[room_name], s) THEN "ok"
    ELSE "removefailed"

\* RoomManager.leave_room: self.rooms after the call
leave_room_rooms(s) ==
    IF leave_room_result(s) = "ok"
    THEN [rooms EXCEPT ![client_rooms[s]] = room_remove_client(@, s)]
    ELSE rooms

\* a leave_room that keeps the room of the socket
leave_room_keeps_mapping(s) == client_rooms

\* RoomManager.leave_room: self.client_rooms after the call
leave_room_client_rooms(s) ==
    IF s \in DOMAIN client_rooms THEN Del(client_rooms, s) ELSE client_rooms

\* RoomManager.remove_client: (success, room_name) of the call
remove_client_result(s) ==
    LET room_name == Get(client_rooms, s) IN
    IF room_name = None \/ room_name \notin DOMAIN rooms
    THEN [success |-> FALSE, room_name |-> None]
    ELSE [success |-> remove_client_ok(rooms[room_name], s),
          room_name |-> room_name]

\* RoomManager.remove_client: self.rooms after the call
remove_client_rooms(s) ==
    IF remove_client_result(s).room_name # None
    THEN [rooms EXCEPT ![client_rooms[s]] = room_remove_client(@, s)]
    ELSE rooms

\* RoomManager.remove_client: self.client_rooms after the call
remove_client_client_rooms(s) ==
    IF s \in DOMAIN client_rooms THEN Del(client_rooms, s) ELSE client_rooms

\* a broadcast_to_room that refuses every fan-out
broadcast_to_room_refused(room_name, sender_socket) == FALSE

\* RoomManager.broadcast_to_room: whether the fan-out runs
broadcast_to_room_ok(room_name, sender_socket) ==
    /\ room_name \in DOMAIN rooms
    /\ sender_socket # 0 => Get(client_rooms, sender_socket) = room_name

\* a Room.broadcast that calls the callback for nobody
broadcast_to_nobody(room_name, sender_socket) == {}

\* Room.broadcast: the sockets the callback is called for
broadcast_recipients(room_name, sender_socket) ==
    rooms[room_name].clients \ {sender_socket}

\* RoomManager.broadcast_to_room, entered: the lock is taken and, when the
\* checks pass, Room.broadcast starts sending while the lock is held
broadcast_begin(t, room_name, frame, sender_socket) ==
    /\ lock_free
    /\ lock' = t
    /\ sending' = IF broadcast_to_room_ok(room_name, sender_socket)
                  THEN [room |-> room_name,
                        to |-> broadcast_recipients(room_name, sender_socket),
                        frame |-> frame]
                  ELSE NoSend

\* ChatServer.send_to_client for every recipient of the running fan-out, then
\* the return of broadcast_to_room, which releases the lock
broadcast_end(t) ==
    /\ lock = t
    /\ delivered' = [c \in Sockets |->
                        IF c \in sending.to
                        THEN Append(delivered[c], sending.frame)
                        ELSE delivered[c]]
    /\ sending' = NoSend
    /\ lock' = 0

\* no call of Room.check_password has returned
NoCheck == [room |-> Room("public", None, SERVER), password |-> None,
            called |-> FALSE, result |-> FALSE]

\* RoomManager.__init__: the default room is created by the constructor
InitRM ==
    /\ rooms = [n \in {Genel} |-> Room("public", None, SERVER)]
    /\ client_rooms = [s \in {} |-> None]
    /\ lock = 0
    /\ sending = NoSend
    /\ delivered = [s \in Sockets |-> <<>>]
    /\ rm_last = [op |-> None, room |-> None, result |-> None]
    /\ pw_last = NoCheck

\* MessageHandler.__init__
InitMH ==
    /\ room_messages = [n \in {} |-> <<>>]
    /\ message_lookup = [i \in {} |-> None]
    /\ deleted_messages = {}
    /\ message_history = [i \in {} |-> <<>>]
    /\ next_id = 1
    /\ append_occ = [i \in {} |-> {}]

\* An inbound frame after json_helper.parse_message, with the locals of the
\* handler that works on it: the room name it read (lroom), whether it found
\* no message list for that room (fresh), the outcome of the call it made
\* (result) and, as history, the sender's room when the frame arrived (before)
\* and the created_by of the room its delete_room call removed (owner).
\* device_id is the deviceId of the frame (None: the frame has none).
NoFrame == [kind |-> None, username |-> <<None, 0>>, room |-> None,
            room_type |-> None, password |-> None, id |-> 0, text |-> None,
            lroom |-> None, result |-> None, before |-> None, fresh |-> FALSE,
            owner |-> <<None, 0>>, device_id |-> None]

\* ChatServer.__init__: nobody is connected
InitSrvWith(frames) ==
    /\ clients = [s \in {} |-> None]
    /\ pc = [s \in Sockets |-> "new"]
    /\ cur = [s \in Sockets |-> NoFrame]
    /\ chat_left = frames
    /\ device_ids = [s \in Sockets |-> None]
    /\ disconnected_clients = [d \in {} |-> None]

InitSrv == InitSrvWith(MaxChatFrames)

\* ---------------------------------------------- event transport: state

Sids == 1 .. NumSids

EvRoomIds == 1 .. NumEvRooms

\* no message_updated / message_deleted was emitted
NoNotice == [event |-> None, id |-> 0, was_deleted |-> FALSE]

NoEvCur == [room_id |-> 0, password |-> None, old |-> 0, ret |-> None]

\* module state of app/sockets/connection.py and app/sockets/room.py; the
\* Firebase store is not configured, so no room is loaded from it
InitEv ==
    /\ active_connections = [s \in {} |-> None]
    /\ active_rooms = [r \in {} |-> None]
    /\ sio_rooms = [s \in Sids |-> {}]
    /\ ev_pc = [s \in Sids |-> "new"]
    /\ ev_cur = [s \in Sids |-> NoEvCur]
    /\ ev_last = [room_id |-> 0, password |-> None, ok |-> FALSE]
    /\ roomless_seen = {}
    /\ ev_room_messages = [r \in {} |-> <<>>]
    /\ message_by_id = [i \in {} |-> None]
    /\ ev_replay = <<>>
    /\ ev_notice = NoNotice

Init == InitRM /\ InitMH /\ InitSrv /\ InitEv

\* -------------------------------------- SpecRM: RoomManager, any caller

\* the sockets the callers of SpecRM pass
NumRMSockets == 2
\* frames one socket is sent before the callers of SpecRM stop broadcasting
MaxBroadcasts == 1

RMSockets == 1 .. NumRMSockets

\* created_by of the rooms the callers create (RoomManager never reads it)
RMCreators == {UName("alice")}

RMPasswords == {None, "", "pw1"}

Last(op, room, result) == [op |-> op, room |-> room, result |-> result]

RM_create_room(room_name, room_type, password, created_by) ==
    /\ lock_free
    /\ rooms' = create_room(room_name, room_type, password, created_by)
    /\ rm_last' = Last("create_room", room_name,
                       create_room_result(room_name, room_type, password))
    /\ UNCHANGED <<client_rooms, lock, sending, delivered, pw_last>>

RM_delete_room(room_name) ==
    /\ lock_free
    /\ rooms' = delete_room_rooms(room_name)
    /\ client_rooms' = delete_room_client_rooms(room_name)
    /\ rm_last' = Last("delete_room", room_name, delete_room_result(room_name))
    /\ UNCHANGED <<lock, sending, delivered, pw_last>>

RM_join_room(s, room_name, password) ==
    /\ lock_free
    /\ rooms' = join_room_rooms(s, room_name, password)
    /\ client_rooms' = join_room_client_rooms(s, room_name, password)
    /\ rm_last' = Last("join_room", room_name,
                       join_room_result(s, room_name, password))
    /\ UNCHANGED <<lock, sending, delivered, pw_last>>

RM_leave_room(s) ==
    /\ lock_free
    /\ rooms' = leave_room_rooms(s)
    /\ client_rooms' = leave_room_client_rooms(s)
    /\ rm_last' = Last("leave_room", Get(client_rooms, s), leave_room_result(s))
    /\ UNCHANGED <<lock, sending, delivered, pw_last>>

RM_remove_client(s) ==
    /\ lock_free
    /\ rooms' = remove_client_rooms(s)
    /\ client_rooms' = remove_client_client_rooms(s)
    /\ rm_last' = Last("remove_client", remove_client_result(s).room_name,
                       IF remove_client_result(s).success THEN "ok" ELSE "none")
    /\ UNCHANGED <<lock, sending, delivered, pw_last>>

RM_broadcast_to_room(t, room_name, sender_socket) ==
    /\ \A c \in Sockets : Len(delivered[c]) < MaxBroadcasts
    /\ broadcast_begin(t, room_name, Fr("frame", 0, 0), sender_socket)
    /\ UNCHANGED <<rooms, client_rooms, delivered, rm_last, pw_last>>

RM_broadcast_return(t) ==
    /\ broadcast_end(t)
    /\ rm_last' = Last("broadcast_to_room", sending.room,
                       IF sending.room = None THEN "none" ELSE "ok")
    /\ UNCHANGED <<rooms, client_rooms, pw_last>>

NextRM ==
    \/ \E n \in RoomNames, ty \in RoomTypes, pw \in RMPasswords,
          u \in RMCreators :
          RM_create_room(n, ty, pw, u) /\ UNCHANGED <<srvVars, msgVars, evVars>>
    \/ \E n \in RoomNames :
          RM_delete_room(n) /\ UNCHANGED <<srvVars, msgVars, evVars>>
    \/ \E s \in RMSockets, n \in RoomNames, pw \in Passwords :
          RM_join_room(s, n, pw) /\ UNCHANGED <<srvVars, msgVars, evVars>>
    \/ \E s \in RMSockets :
          RM_leave_room(s) /\ UNCHANGED <<srvVars, msgVars, evVars>>
    \/ \E s \in RMSockets :
          RM_remove_client(s) /\ UNCHANGED <<srvVars, msgVars, evVars>>
    \/ \E t \in RMSockets, n \in RoomNames, snd \in RMSockets \cup {0} :
          RM_broadcast_to_room(t, n, snd)
            /\ UNCHANGED <<srvVars, msgVars, evVars>>
    \/ \E t \in RMSockets :
          RM_broadcast_return(t) /\ UNCHANGED <<srvVars, msgVars, evVars>>

SpecRM == Init /\ [][NextRM]_vars

\* C1: every socket is listed by at most one room, and a socket that maps to
\* room R (client_rooms[s] = R) finds R in self.rooms and itself in R.clients.
C1_MapsIntoRoom ==
    \A s \in Sockets :
        /\ Cardinality({n \in DOMAIN rooms : s \in rooms[n].clients}) <= 1
        /\ s \in DOMAIN client_rooms =>
              /\ client_rooms[s] \in DOMAIN rooms
              /\ s \in rooms[client_rooms[s]].clients

\* C1 witness: a room was deleted under its occupants while another socket
\* stays mapped to the default room
C1_Witness ==
    /\ rm_last = Last("delete_room", "R1", "ok")
    /\ \E s \in Sockets : s \notin DOMAIN client_rooms
    /\ \E s \in Sockets : Get(client_rooms, s) = Genel

\* C2: the occupants of every room are exactly the sockets that map to it, so
\* the two counts agree.
C2_OccupantsAreMapped ==
    \A n \in DOMAIN rooms :
        /\ rooms[n].clients = {s \in DOMAIN client_rooms : client_rooms[s] = n}
        /\ Cardinality(rooms[n].clients)
             = Cardinality({s \in Sockets : Get(client_rooms, s) = n})

\* C2 witness: a socket has just moved into a created room and both rooms are
\* occupied
C2_Witness ==
    /\ rm_last = Last("join_room", "R1", "ok")
    /\ rooms["R1"].clients # {}
    /\ rooms[Genel].clients # {}

\* C10: while a fan-out is running its room is in self.rooms and its
\* recipients are occupants of that room (no delete_room cuts into it), and
\* when delete_room has returned success the room is gone and no socket maps
\* to it.
C10_DeleteIsAtomic ==
    /\ sending.room # None =>
          /\ sending.room \in DOMAIN rooms
          /\ sending.to \subseteq rooms[sending.room].clients
    /\ (rm_last.op = "delete_room" /\ rm_last.result = "ok") =>
          /\ rm_last.room \notin DOMAIN rooms
          /\ \A s \in Sockets : Get(client_rooms, s) # rm_last.room

\* C10 witness: a room that was delivered a broadcast has been deleted, its
\* occupant detached
C10_Witness ==
    /\ rm_last = Last("delete_room", "R1", "ok")
    /\ \E s \in Sockets : delivered[s] # <<>> /\ s \notin DOMAIN client_rooms

\* --------------------------------------------------------- MessageHandler

\* a stored message: message_lookup[messageId] = (room_name, message_data);
\* author and editor are history: the socket that posted it, and the socket
\* whose update or delete request was carried out last (0: none)
Message(room_name, username, text, s) ==
    [room |-> room_name, username |-> username, message |-> text,
     edited |-> FALSE, author |-> s, editor |-> 0]

\* MessageHandler._handle_new_message, after the room was read: the message
\* is appended to the room's list, which is first set to [] when the handler
\* found none (fresh), and indexed by its id
new_message_room_messages(room_name, id, fresh) ==
    Put(room_messages, room_name,
        Append(IF room_name \in DOMAIN room_messages /\ ~fresh
               THEN room_messages[room_name] ELSE <<>>, id))

new_message_lookup(room_name, id, username, text, s) ==
    Put(message_lookup, id, Message(room_name, username, text, s))

\* MessageHandler._handle_update_message: which return the call takes. The
\* owner check compares the username stored in the message with the username
\* the update frame carries.
update_message_result(id, username) ==
    IF id \notin DOMAIN message_lookup THEN "notfound"
    ELSE IF id \in deleted_messages THEN "deleted"
    ELSE IF message_lookup[id].username # username THEN "forbidden"
    ELSE "ok"

\* MessageHandler._handle_update_message: self.message_lookup after the call
update_message_lookup(id, username, new_content, s) ==
    IF update_message_result(id, username) = "ok"
    THEN [message_lookup EXCEPT ![id].message = new_content,
                                ![id].edited = TRUE,
                                ![id].editor = s]
    ELSE message_lookup

\* MessageHandler._handle_update_message / _handle_delete_message:
\* self.message_history after a successful call
push_history(id) ==
    Put(message_history, id,
        Append(IF id \in DOMAIN message_history
               THEN message_history[id] ELSE <<>>, message_lookup[id].message))

\* MessageHandler._handle_delete_message: which return the call takes
delete_message_result(id, username) ==
    IF id \notin DOMAIN message_lookup THEN "notfound"
    ELSE IF id \in deleted_messages THEN "deleted"
    ELSE IF message_lookup[id].username # username THEN "forbidden"
    ELSE "ok"

\* MessageHandler._handle_delete_message: the room's list without the message
delete_message_room_messages(id) ==
    LET room_name == message_lookup[id].room IN
    IF room_name \in DOMAIN room_messages
    THEN [room_messages EXCEPT
            ![room_name] = SelectSeq(@, LAMBDA m : m # id)]
    ELSE room_messages

\* message_data["timestamp"]: the clock reading _handle_new_message takes for
\* a frame that carries none; messages are numbered in the order of these
\* readings
timestamp(id) == id

\* the message with the greatest timestamp among those at the indices
max_timestamp_index(messages, indices) ==
    CHOOSE i \in indices :
        \A j \in indices : timestamp(messages[j]) <= timestamp(messages[i])

\* messages.sort(key=lambda x: x.get("timestamp", ""), reverse=True)
RECURSIVE sort_newest_first(_, _)
sort_newest_first(messages, indices) ==
    IF indices = {} THEN <<>>
    ELSE LET i == max_timestamp_index(messages, indices) IN
         <<messages[i]>> \o sort_newest_first(messages, indices \ {i})

\* MessageHandler.get_room_messages(room_name, limit)
get_room_messages(room_name, limit) ==
    IF room_name \notin DOMAIN room_messages THEN <<>>
    ELSE LET messages == SelectSeq(room_messages[room_name],
                                   LAMBDA m : m \notin deleted_messages)
             sorted == sort_newest_first(messages, 1 .. Len(messages))
         IN SubSeq(sorted, 1, IF limit < Len(sorted) THEN limit ELSE Len(sorted))

\* ------------------------------------------------------------- ChatServer

CmdSockets == 1 .. NumCmdSockets

ChatSockets == 1 .. NumChatSockets

\* client_socket.send(...) of the handler's own socket
send(s, frame) == [delivered EXCEPT ![s] = Append(@, frame)]

\* current_username.startswith("Misafir-")
is_placeholder(username) == username[1] = "Misafir-"

\* [info[1] for info in self.clients.values()]
client_names == {clients[c] : c \in DOMAIN clients}

\* ChatServer.handle_client, first frame: the username the socket is given
assigned_username(new_username) ==
    IF new_username \in client_names
    THEN <<new_username[1], Cardinality(DOMAIN clients)>>
    ELSE new_username

\* A reply built by json_helper.build_message(..., command=..., params=...):
\* build_message has no such parameters, the call raises TypeError, nothing is
\* sent, and `except Exception` of handle_client leaves the loop for
\* handle_disconnection.
command_reply(s) == [pc EXCEPT ![s] = "disc"]

\* the handler is back at recv(): its locals are gone
back_to_recv(s) == [cur EXCEPT ![s] = NoFrame]

\* the first frame of a client: whatever it is, its username is taken
AuthFrames(names) ==
    {[NoFrame EXCEPT !.kind = "auth", !.username = UName(u)] : u \in names}

\* a chat message; the client puts its own name in it
MessageFrames(username) ==
    {[NoFrame EXCEPT !.kind = "message", !.username = username, !.text = "hi"]}

\* update / delete requests for a message id, carrying any username
EditFrames(names) ==
    {[NoFrame EXCEPT !.kind = k, !.username = UName(u), !.id = i,
                     !.text = IF k = "update" THEN "changed" ELSE None] :
        k \in {"update", "delete"}, u \in names, i \in 1 .. next_id - 1}

CommandFrames ==
    {[NoFrame EXCEPT !.kind = "create_room", !.room = n, !.room_type = ty,
                     !.password = pw] :
        n \in {"R1", ""}, ty \in {"public", "private"}, pw \in {None, "pw1"}}
    \cup {[NoFrame EXCEPT !.kind = "join_room", !.room = n, !.password = pw] :
             n \in RoomNames \cup {""}, pw \in {None, "pw2"}}
    \cup {[NoFrame EXCEPT !.kind = "delete_room", !.room = n] :
             n \in RoomNames \cup {""}}
    \cup {[NoFrame EXCEPT !.kind = k] : k \in {"leave_room", "list_rooms"}}

\* ChatServer.start, accept loop: the socket is registered under a placeholder
\* name and welcomed. The loop takes one connection at a time; sockets are
\* numbered in the order accept() returns them.
Accept(s) ==
    /\ pc[s] = "new"
    /\ \A c \in Sockets : (c < s => pc[c] # "new") /\ pc[c] # "accepted"
    /\ clients' = Put(clients, s, <<"Misafir-", Cardinality(DOMAIN clients) + 1>>)
    /\ device_ids' = [device_ids EXCEPT ![s] = None]
    /\ delivered' = send(s, Fr("welcome", 0, 0))
    /\ pc' = [pc EXCEPT ![s] = "accepted"]
    /\ UNCHANGED <<rooms, client_rooms, lock, sending, rm_last, pw_last, cur,
                   chat_left, msgVars, evVars, disconnected_clients>>

\* ChatServer.start, accept loop: send_room_info(client_socket) calls
\* list_public_rooms (which takes the lock) and then build_message with
\* command= / params=; the TypeError is caught by the loop's `except
\* Exception`, so nothing is sent and Thread(...).start() below is skipped.
AcceptRoomInfo(s) ==
    /\ pc[s] = "accepted"
    /\ lock_free
    /\ pc' = [pc EXCEPT ![s] = "registered"]
    /\ UNCHANGED <<rmVars, clients, cur, chat_left, msgVars, evVars, devVars>>

\* handle_client(client_socket) is entered. The accept loop never gets to
\* start the thread (see AcceptRoomInfo); the handler is studied as the code
\* defines it, run for a registered socket.
HandleClient(s) ==
    /\ pc[s] = "registered"
    /\ pc' = [pc EXCEPT ![s] = "recv"]
    /\ UNCHANGED <<rmVars, clients, cur, chat_left, msgVars, evVars, devVars>>

\* handle_client: recv() returns a frame and it is dispatched: the first
\* frame of a placeholder-named socket is its authentication, later frames
\* are commands, update / delete requests or chat messages
Recv(s, f) ==
    /\ pc[s] = "recv"
    /\ s \in DOMAIN clients
    /\ is_placeholder(clients[s]) <=> f.kind = "auth"
    /\ f.kind \in {"message", "update", "delete"} => chat_left > 0
    /\ cur' = [cur EXCEPT ![s] = [f EXCEPT !.before = Get(client_rooms, s)]]
    /\ chat_left' = IF f.kind \in {"message", "update", "delete"}
                    THEN chat_left - 1 ELSE chat_left
    /\ pc' = [pc EXCEPT ![s] = f.kind]
    /\ UNCHANGED <<rmVars, clients, msgVars, evVars, devVars>>

\* handle_client: recv() returns no data (the client closed the connection)
Close(s) ==
    /\ pc[s] = "recv"
    /\ cur' = [cur EXCEPT ![s] = [NoFrame EXCEPT !.kind = "close",
                                     !.before = Get(client_rooms, s)]]
    /\ pc' = [pc EXCEPT ![s] = "disc"]
    /\ UNCHANGED <<rmVars, clients, chat_left, msgVars, evVars, devVars>>

\* handle_client, first frame: the username is taken from the frame, made
\* unique, and stored with the device id. Before that, a device id that has
\* an archived disconnect record is a reconnect: when the record names a room
\* the reconnect_info frame is built with command= / params=, the TypeError
\* ends the handler before anything is stored or deleted; a record without a
\* room is deleted and the authentication goes on.
reconnects(device_id) ==
    ~Falsy(device_id) /\ device_id \in DOMAIN disconnected_clients

\* handle_client, first frame: the authentication block up to the join
Authenticate(s) ==
    /\ pc[s] = "auth"
    /\ IF reconnects(cur[s].device_id)
          /\ disconnected_clients[cur[s].device_id].room # None
       THEN /\ pc' = [pc EXCEPT ![s] = "disc"]
            /\ UNCHANGED <<clients, devVars>>
       ELSE /\ clients' = Put(clients, s, assigned_username(cur[s].username))
            /\ device_ids' = [device_ids EXCEPT ![s] = cur[s].device_id]
            /\ disconnected_clients' =
                   IF reconnects(cur[s].device_id)
                   THEN Del(disconnected_clients, cur[s].device_id)
                   ELSE disconnected_clients
            /\ pc' = [pc EXCEPT ![s] = "auth_join"]
    /\ UNCHANGED <<rmVars, cur, chat_left, msgVars, evVars>>

\* handle_client, first frame: join_room(client_socket, "Genel", new_username)
AuthJoin(s) ==
    /\ pc[s] = "auth_join"
    /\ lock_free
    /\ rooms' = join_room_rooms(s, Genel, None)
    /\ client_rooms' = join_room_client_rooms(s, Genel, None)
    /\ pc' = [pc EXCEPT ![s] = "auth_bcast"]
    /\ UNCHANGED <<lock, sending, delivered, rm_last, pw_last, clients, cur, chat_left,
                   msgVars, evVars, devVars>>

\* handle_client, first frame: the join is announced to the others in "Genel"
AuthBroadcast(s) ==
    /\ pc[s] = "auth_bcast"
    /\ broadcast_begin(s, Genel, Fr("join_msg", s, 0), s)
    /\ pc' = [pc EXCEPT ![s] = "auth_sending"]
    /\ UNCHANGED <<rooms, client_rooms, delivered, rm_last, pw_last, clients, cur,
                   chat_left, msgVars, evVars, devVars>>

\* where a handler continues when its broadcast_to_room has returned
after_sending(p) ==
    CASE p = "auth_sending" -> "recv"
      [] p = "message_sending" -> "recv"
      [] p = "edit_sending" -> "recv"
      [] p = "leave_sending" -> "leave_join"

\* Room.broadcast sends to every recipient, broadcast_to_room returns
Sending(s) ==
    /\ pc[s] \in {"auth_sending", "message_sending", "edit_sending",
                  "leave_sending"}
    /\ broadcast_end(s)
    /\ pc' = [pc EXCEPT ![s] = after_sending(pc[s])]
    /\ cur' = IF after_sending(pc[s]) = "recv" THEN back_to_recv(s) ELSE cur
    /\ UNCHANGED <<rooms, client_rooms, rm_last, pw_last, clients, chat_left, msgVars,
                   evVars, devVars>>

\* handle_client, normal message: _handle_new_message reads the sender's room
\* (get_client_room takes no lock) and looks for the room's message list;
\* without a room the sender is told "Mesaj islenemedi"
MessageRoom(s) ==
    /\ pc[s] = "message"
    /\ LET room_name == Get(client_rooms, s) IN
       IF room_name = None
       THEN /\ delivered' = send(s, Fr("error", s, 0))
            /\ pc' = [pc EXCEPT ![s] = "recv"]
            /\ cur' = back_to_recv(s)
       ELSE /\ delivered' = delivered
            /\ pc' = [pc EXCEPT ![s] = "message_append"]
            /\ cur' = [cur EXCEPT ![s].lroom = room_name,
                                  ![s].fresh = room_name \notin DOMAIN room_messages]
    /\ UNCHANGED <<rooms, client_rooms, lock, sending, rm_last, pw_last, clients,
                   chat_left, msgVars, evVars, devVars>>

\* _handle_new_message: message_data["messageId"], a fresh uuid only when the
\* frame carries none
new_message_id(s) == IF cur[s].id = 0 THEN next_id ELSE cur[s].id

\* _handle_new_message: the message gets its id and is stored
MessageAppend(s) ==
    /\ pc[s] = "message_append"
    /\ room_messages' = new_message_room_messages(cur[s].lroom, new_message_id(s),
                                                  cur[s].fresh)
    /\ message_lookup' = new_message_lookup(cur[s].lroom, new_message_id(s),
                                            cur[s].username, cur[s].text, s)
    /\ append_occ' = Put(append_occ, new_message_id(s),
                         IF cur[s].lroom \in DOMAIN rooms
                         THEN rooms[cur[s].lroom].clients ELSE {})
    /\ next_id' = IF cur[s].id = 0 THEN next_id + 1 ELSE next_id
    /\ cur' = [cur EXCEPT ![s].id = new_message_id(s)]
    /\ pc' = [pc EXCEPT ![s] = "message_getroom"]
    /\ UNCHANGED <<rmVars, clients, chat_left, deleted_messages,
                   message_history, evVars, devVars>>

\* handle_client, normal message: the room is read a second time for the
\* fan-out; without a room the sender is told to join one
MessageGetRoom(s) ==
    /\ pc[s] = "message_getroom"
    /\ LET room_name == Get(client_rooms, s) IN
       IF room_name = None
       THEN /\ delivered' = send(s, Fr("error", s, cur[s].id))
            /\ pc' = [pc EXCEPT ![s] = "recv"]
            /\ cur' = back_to_recv(s)
       ELSE /\ delivered' = delivered
            /\ pc' = [pc EXCEPT ![s] = "message_bcast"]
            /\ cur' = [cur EXCEPT ![s].lroom = room_name]
    /\ UNCHANGED <<rooms, client_rooms, lock, sending, rm_last, pw_last, clients,
                   chat_left, msgVars, evVars, devVars>>

\* handle_client, normal message: broadcast_to_room(room_name, message,
\* client_socket)
MessageBroadcast(s) ==
    /\ pc[s] = "message_bcast"
    /\ broadcast_begin(s, cur[s].lroom, Fr("message", s, cur[s].id), s)
    /\ pc' = [pc EXCEPT ![s] = "message_sending"]
    /\ UNCHANGED <<rooms, client_rooms, delivered, rm_last, pw_last, clients, cur,
                   chat_left, msgVars, evVars, devVars>>

\* handle_client, type update: _handle_update_message; a refused update is
\* dropped without a reply
UpdateMessage(s) ==
    /\ pc[s] = "update"
    /\ LET r == update_message_result(cur[s].id, cur[s].username) IN
       /\ message_lookup' = update_message_lookup(cur[s].id, cur[s].username,
                                                  cur[s].text, s)
       /\ message_history' = IF r = "ok" THEN push_history(cur[s].id)
                             ELSE message_history
       /\ cur' = IF r = "ok" THEN [cur EXCEPT ![s].result = r]
                 ELSE back_to_recv(s)
       /\ pc' = [pc EXCEPT ![s] = IF r = "ok" THEN "edit_getroom" ELSE "recv"]
    /\ UNCHANGED <<rmVars, clients, chat_left, room_messages,
                   deleted_messages, next_id, append_occ, evVars, devVars>>

\* handle_client, type delete: _handle_delete_message
DeleteMessage(s) ==
    /\ pc[s] = "delete"
    /\ LET r == delete_message_result(cur[s].id, cur[s].username) IN
       /\ deleted_messages' = IF r = "ok"
                              THEN deleted_messages \cup {cur[s].id}
                              ELSE deleted_messages
       /\ message_history' = IF r = "ok" THEN push_history(cur[s].id)
                             ELSE message_history
       /\ room_messages' = IF r = "ok"
                           THEN delete_message_room_messages(cur[s].id)
                           ELSE room_messages
       /\ message_lookup' = IF r = "ok"
                            THEN [message_lookup EXCEPT ![cur[s].id].editor = s]
                            ELSE message_lookup
       /\ cur' = IF r = "ok" THEN [cur EXCEPT ![s].result = r]
                 ELSE back_to_recv(s)
       /\ pc' = [pc EXCEPT ![s] = IF r = "ok" THEN "edit_getroom" ELSE "recv"]
    /\ UNCHANGED <<rmVars, clients, chat_left, next_id, append_occ, evVars, devVars>>

\* handle_client, type update / delete: the notification goes to the room the
\* requester is in now, if any
EditGetRoom(s) ==
    /\ pc[s] = "edit_getroom"
    /\ LET room_name == Get(client_rooms, s) IN
       /\ cur' = IF room_name = None THEN back_to_recv(s)
                 ELSE [cur EXCEPT ![s].lroom = room_name]
       /\ pc' = [pc EXCEPT ![s] = IF room_name = None THEN "recv"
                                  ELSE "edit_bcast"]
    /\ UNCHANGED <<rmVars, clients, chat_left, msgVars, evVars, devVars>>

\* MessageHandler.broadcast_message_to_room(room_name, processed_message, None)
EditBroadcast(s) ==
    /\ pc[s] = "edit_bcast"
    /\ broadcast_begin(s, cur[s].lroom,
                       Fr(IF cur[s].kind = "update" THEN "update_notification"
                          ELSE "delete_notification", s, cur[s].id), 0)
    /\ pc' = [pc EXCEPT ![s] = "edit_sending"]
    /\ UNCHANGED <<rooms, client_rooms, delivered, rm_last, pw_last, clients, cur,
                   chat_left, msgVars, evVars, devVars>>

\* handle_command, create_room: an empty name is answered with an error reply,
\* else RoomManager.create_room is called and answered with its result
CmdCreateRoom(s) ==
    /\ pc[s] = "create_room"
    /\ IF cur[s].room = ""
       THEN /\ cur' = [cur EXCEPT ![s].result = "badrequest"]
            /\ rooms' = rooms
       ELSE /\ lock_free
            /\ rooms' = create_room(cur[s].room, cur[s].room_type,
                                    cur[s].password, clients[s])
            /\ cur' = [cur EXCEPT ![s].result =
                          create_room_result(cur[s].room, cur[s].room_type,
                                             cur[s].password)]
    /\ pc' = command_reply(s)
    /\ UNCHANGED <<client_rooms, lock, sending, delivered, rm_last, pw_last, clients,
                   chat_left, msgVars, evVars, devVars>>

\* handle_command, join_room: RoomManager.join_room, answered with its result
CmdJoinRoom(s) ==
    /\ pc[s] = "join_room"
    /\ IF cur[s].room = ""
       THEN /\ cur' = [cur EXCEPT ![s].result = "badrequest"]
            /\ UNCHANGED <<rooms, client_rooms, pw_last>>
       ELSE /\ lock_free
            /\ rooms' = join_room_rooms(s, cur[s].room, cur[s].password)
            /\ client_rooms' = join_room_client_rooms(s, cur[s].room,
                                                      cur[s].password)
            /\ cur' = [cur EXCEPT ![s].result =
                          join_room_result(s, cur[s].room, cur[s].password)]
    /\ pc' = command_reply(s)
    /\ UNCHANGED <<lock, sending, delivered, rm_last, pw_last, clients, chat_left,
                   msgVars, evVars, devVars>>

\* handle_command, leave_room: RoomManager.leave_room
CmdLeaveRoom(s) ==
    /\ pc[s] = "leave_room"
    /\ lock_free
    /\ rooms' = leave_room_rooms(s)
    /\ client_rooms' = leave_room_client_rooms(s)
    /\ cur' = [cur EXCEPT ![s].result = leave_room_result(s),
                          ![s].lroom = Get(client_rooms, s)]
    /\ pc' = IF leave_room_result(s) = "ok"
             THEN [pc EXCEPT ![s] = "leave_bcast"]
             ELSE command_reply(s)
    /\ UNCHANGED <<lock, sending, delivered, rm_last, pw_last, clients, chat_left,
                   msgVars, evVars, devVars>>

\* handle_command, leave_room: the room that was left is told
LeaveBroadcast(s) ==
    /\ pc[s] = "leave_bcast"
    /\ broadcast_begin(s, cur[s].lroom, Fr("leave_msg", s, 0), 0)
    /\ pc' = [pc EXCEPT ![s] = "leave_sending"]
    /\ UNCHANGED <<rooms, client_rooms, delivered, rm_last, pw_last, clients, cur,
                   chat_left, msgVars, evVars, devVars>>

\* handle_command, leave_room: back into "Genel", then the reply
LeaveJoin(s) ==
    /\ pc[s] = "leave_join"
    /\ lock_free
    /\ rooms' = join_room_rooms(s, Genel, None)
    /\ client_rooms' = join_room_client_rooms(s, Genel, None)
    /\ pc' = command_reply(s)
    /\ UNCHANGED <<lock, sending, delivered, rm_last, pw_last, clients, cur, chat_left,
                   msgVars, evVars, devVars>>

\* handle_command, delete_room: get_room_info and the owner check
delete_room_check(room_name, username) ==
    IF room_name = "" THEN "badrequest"
    ELSE IF room_name \notin DOMAIN rooms THEN "notfound"
    ELSE IF rooms[room_name].created_by # username /\ username # SERVER
         THEN "forbidden"
    ELSE "allowed"

CmdDeleteCheck(s) ==
    /\ pc[s] = "delete_room"
    /\ cur[s].room # "" => lock_free
    /\ LET r == delete_room_check(cur[s].room, clients[s]) IN
       /\ cur' = [cur EXCEPT ![s].result = r]
       /\ pc' = IF r = "allowed" THEN [pc EXCEPT ![s] = "delete_room_call"]
                ELSE command_reply(s)
    /\ UNCHANGED <<rmVars, clients, chat_left, msgVars, evVars, devVars>>

\* handle_command, delete_room: RoomManager.delete_room, answered with its
\* result; the reply raises before anybody is moved to "Genel"
CmdDeleteRoom(s) ==
    /\ pc[s] = "delete_room_call"
    /\ lock_free
    /\ rooms' = delete_room_rooms(cur[s].room)
    /\ client_rooms' = delete_room_client_rooms(cur[s].room)
    /\ cur' = [cur EXCEPT ![s].result = delete_room_result(cur[s].room),
                          ![s].owner =
                              IF delete_room_result(cur[s].room) = "ok"
                              THEN rooms[cur[s].room].created_by
                              ELSE <<None, 0>>]
    /\ pc' = command_reply(s)
    /\ UNCHANGED <<lock, sending, delivered, rm_last, pw_last, clients, chat_left,
                   msgVars, evVars, devVars>>

\* handle_command, list_rooms: list_public_rooms, then the reply
CmdListRooms(s) ==
    /\ pc[s] = "list_rooms"
    /\ lock_free
    /\ cur' = [cur EXCEPT ![s].result = "listed"]
    /\ pc' = command_reply(s)
    /\ UNCHANGED <<rmVars, clients, chat_left, msgVars, evVars, devVars>>

\* handle_disconnection: RoomManager.remove_client
Disconnect(s) ==
    /\ pc[s] = "disc"
    /\ IF s \in DOMAIN clients
       THEN /\ lock_free
            /\ rooms' = remove_client_rooms(s)
            /\ client_rooms' = remove_client_client_rooms(s)
            /\ cur' = [cur EXCEPT ![s].lroom =
                          IF remove_client_result(s).success
                          THEN remove_client_result(s).room_name ELSE None]
            /\ pc' = [pc EXCEPT ![s] = "disc_cleanup"]
       ELSE /\ pc' = [pc EXCEPT ![s] = "ended"]
            /\ UNCHANGED <<rooms, client_rooms, cur>>
    /\ UNCHANGED <<lock, sending, delivered, rm_last, pw_last, clients, chat_left,
                   msgVars, evVars, devVars>>

\* handle_disconnection, after remove_client: when the socket was in a room
\* the user_disconnect notice is built with command= / params=, the TypeError
\* is caught by the method's own `except Exception` and the rest is skipped:
\* the socket stays in self.clients. Only a socket that was in no room is
\* taken out of the registry.
\* Before the notice the session is archived under its device id, with the
\* room remove_client returned.
archived(s) ==
    /\ ~Falsy(device_ids[s])
    /\ clients[s] # <<"Misafir-", Cardinality(DOMAIN clients)>>

DisconnectCleanup(s) ==
    /\ pc[s] = "disc_cleanup"
    /\ disconnected_clients' =
           IF archived(s)
           THEN Put(disconnected_clients, device_ids[s],
                    [username |-> clients[s], room |-> cur[s].lroom])
           ELSE disconnected_clients
    /\ clients' = IF cur[s].lroom # None THEN clients ELSE Del(clients, s)
    /\ device_ids' = IF cur[s].lroom # None THEN device_ids
                     ELSE [device_ids EXCEPT ![s] = None]
    /\ pc' = [pc EXCEPT ![s] = "ended"]
    /\ cur' = back_to_recv(s)
    /\ UNCHANGED <<rmVars, chat_left, msgVars, evVars>>

\* a client connects and authenticates
Connection(s) ==
    \/ Accept(s)
    \/ AcceptRoomInfo(s)
    \/ HandleClient(s)
    \/ Authenticate(s)
    \/ AuthJoin(s)
    \/ AuthBroadcast(s)
    \/ Sending(s)

\* a handler thread ends
Disconnection(s) ==
    \/ Close(s)
    \/ Disconnect(s)
    \/ DisconnectCleanup(s)

\* Spec: clients that authenticate and send room commands
Next ==
    \E s \in CmdSockets :
        \/ Connection(s)
        \/ Disconnection(s)
        \/ \E f \in AuthFrames(CmdUsernames) \cup CommandFrames : Recv(s, f)
        \/ CmdCreateRoom(s)
        \/ CmdJoinRoom(s)
        \/ CmdLeaveRoom(s)
        \/ LeaveBroadcast(s)
        \/ LeaveJoin(s)
        \/ CmdDeleteCheck(s)
        \/ CmdDeleteRoom(s)
        \/ CmdListRooms(s)

Spec == Init /\ [][Next]_vars

\* SpecChat: clients that authenticate and post messages in "Genel"
NextChat ==
    \E s \in ChatSockets :
        \/ Connection(s)
        \/ \E f \in AuthFrames(ChatUsernames)
                      \cup MessageFrames(Get(clients, s)) : Recv(s, f)
        \/ MessageRoom(s)
        \/ MessageAppend(s)
        \/ MessageGetRoom(s)
        \/ MessageBroadcast(s)

SpecChat == Init /\ [][NextChat]_vars

\* SpecEdit: clients that authenticate, post, edit and delete messages, and
\* leave
NextEdit ==
    \E s \in CmdSockets :
        \/ Connection(s)
        \/ Disconnection(s)
        \/ \E f \in AuthFrames(ChatUsernames) \cup EditFrames(ChatUsernames)
                      \cup MessageFrames(Get(clients, s)) : Recv(s, f)
        \/ MessageRoom(s)
        \/ MessageAppend(s)
        \/ MessageGetRoom(s)
        \/ MessageBroadcast(s)
        \/ UpdateMessage(s)
        \/ DeleteMessage(s)
        \/ EditGetRoom(s)
        \/ EditBroadcast(s)

SpecEdit == Init /\ [][NextEdit]_vars

\* --------------------------------------------- claims about the ChatServer

\* a frame of this kind was sent to socket s
was_sent(s, kind) ==
    \E i \in 1 .. Len(delivered[s]) : delivered[s][i].kind = kind

\* the handler of s has handled a command of this kind up to its reply
handled(s, kind) ==
    cur[s].kind = kind /\ pc[s] \in {"disc", "disc_cleanup"}

\* C3: "Genel" is in self.rooms in every reachable state, and a delete_room
\* command that names it is rejected as protected for every requester, with
\* every room's occupants and the requester's own membership left as they
\* were when the command arrived.
C3_GenelProtected ==
    /\ Genel \in DOMAIN rooms
    /\ \A s \in Sockets :
          (handled(s, "delete_room") /\ cur[s].room = Genel) =>
              /\ cur[s].result = "protected"
              /\ Get(client_rooms, s) = cur[s].before

\* C5: a join_room command that was denied (wrong or missing password, or an
\* unknown room) leaves the requester in the room it was in when the command
\* arrived, and the requester is sent the join_room_result failure frame.
C5_DeniedJoinChangesNothing ==
    \A s \in Sockets :
        (handled(s, "join_room") /\ cur[s].result \in {"denied", "notfound"}) =>
            /\ Get(client_rooms, s) = cur[s].before
            /\ was_sent(s, "join_room_result")

\* C6: a message is updated or deleted only on a request of the session
\* (socket) that posted it, whatever username the request frame carries.
C6_OnlyAuthorEdits ==
    \A id \in DOMAIN message_lookup :
        message_lookup[id].editor \in {0, message_lookup[id].author}

\* the place of a message in its room's list
LogIndex(id) ==
    CHOOSE i \in 1 .. Len(room_messages[message_lookup[id].room]) :
        room_messages[message_lookup[id].room][i] = id

in_log(id) ==
    /\ message_lookup[id].room \in DOMAIN room_messages
    /\ \E i \in 1 .. Len(room_messages[message_lookup[id].room]) :
          room_messages[message_lookup[id].room][i] = id

\* C7: every socket is sent the message frames of a room in the order in
\* which the messages were appended to the room's list.
C7_FramesInLogOrder ==
    \A c \in Sockets :
        \A i, j \in 1 .. Len(delivered[c]) :
            (/\ i < j
             /\ delivered[c][i].kind = "message"
             /\ delivered[c][j].kind = "message"
             /\ in_log(delivered[c][i].id)
             /\ in_log(delivered[c][j].id)
             /\ message_lookup[delivered[c][i].id].room
                  = message_lookup[delivered[c][j].id].room)
            => LogIndex(delivered[c][i].id) < LogIndex(delivered[c][j].id)

\* C8: a message frame reaches only sockets that were occupants of the room
\* at the moment the message was appended to the room's list.
C8_OneSnapshot ==
    \A c \in Sockets :
        \A i \in 1 .. Len(delivered[c]) :
            delivered[c][i].kind = "message"
                => c \in append_occ[delivered[c][i].id]

\* -------------------------------------------------------- event transport

\* a room_id of None (room ids are numbers here)
NoRoom == 0

\* the state of the socket transport
socketVars == <<rmVars, srvVars, msgVars>>

\* passwords an event's data may carry (data.get('password', ''))
EvPasswords == {"", "pw1", "pw2"}

\* hashlib.sha256(password.encode()).hexdigest(): one digest per password
sha256 == [p \in {"pw1", "pw2"} |-> IF p = "pw1" THEN "0b14d5" ELSE "6cf615"]

\* room.py hash_password
hash_password(password) == IF Falsy(password) THEN "" ELSE sha256[password]

\* room.py verify_password
verify_password(password, hashed_password) ==
    IF Falsy(hashed_password) THEN TRUE
    ELSE IF Falsy(password) THEN FALSE
    ELSE hash_password(password) = hashed_password

\* handle_join_room, the password check: only a private room that has a
\* password hash asks for one
admitted(room_info, password) ==
    IF room_info.type = "private" /\ ~Falsy(room_info.password_hash)
    THEN verify_password(password, room_info.password_hash)
    ELSE TRUE

\* get_users_in_room
get_users_in_room(room_id) ==
    {s \in DOMAIN active_connections : active_connections[s] = room_id}

\* `user.room_id = ...` by a coroutine that got `user` before an await: the
\* write is seen through active_connections while the session is registered
set_room_id(sid, room_id) ==
    IF sid \in DOMAIN active_connections
    THEN [active_connections EXCEPT ![sid] = room_id]
    ELSE active_connections

\* handle_connect: the session is registered, in no room
EvConnect(sid) ==
    /\ ev_pc[sid] = "new"
    /\ active_connections' = Put(active_connections, sid, NoRoom)
    /\ ev_pc' = [ev_pc EXCEPT ![sid] = "idle"]
    /\ UNCHANGED <<active_rooms, sio_rooms, ev_cur, ev_last, roomless_seen, socketVars, evMsgVars>>

\* handle_create_room: the room gets a fresh id and the name it was asked
\* for, an unknown type becomes public, and a hash is stored only for a
\* private room that was given a password
EvCreateRoomNamed(sid, room_name, room_type, password) ==
    /\ ev_pc[sid] = "idle"
    /\ sid \in DOMAIN active_connections
    /\ Cardinality(DOMAIN active_rooms) < NumEvRooms
    /\ LET ty == IF room_type \in {"public", "private"} THEN room_type
                 ELSE "public"
           room_id == Cardinality(DOMAIN active_rooms) + 1
       IN /\ active_rooms' = Put(active_rooms, room_id,
                 [name |-> room_name,
                  type |-> ty,
                  password_hash |-> IF ty = "private" /\ ~Falsy(password)
                                    THEN hash_password(password) ELSE "",
                  created_by |-> sid])
          /\ ev_room_messages' = Put(ev_room_messages, room_id, <<>>)
    /\ UNCHANGED <<active_connections, sio_rooms, ev_pc, ev_cur, ev_last,
                   roomless_seen, socketVars, message_by_id, ev_replay,
                   ev_notice>>

\* data.get('name', 'Yeni Oda'): the name of a room created without one
DefaultRoomName == "Yeni Oda"

\* the create_room event of a client that sends no name
EvCreateRoom(sid, room_type, password) ==
    EvCreateRoomNamed(sid, DefaultRoomName, room_type, password)

\* handle_join_room up to its first await: an unknown room is refused, the
\* password is checked, and a user who is in a room is first taken out of it
\* by handle_leave_room, which runs up to `await sio.leave_room`
EvJoinRoom(sid, room_id, password) ==
    /\ ev_pc[sid] = "idle"
    /\ sid \in DOMAIN active_connections
    /\ IF room_id \notin DOMAIN active_rooms
       THEN UNCHANGED <<ev_pc, ev_cur, ev_last>>
       ELSE LET ok == admitted(active_rooms[room_id], password)
                old == active_connections[sid]
            IN /\ ev_last' = [room_id |-> room_id, password |-> password,
                              ok |-> ok]
               /\ ev_pc' = [ev_pc EXCEPT ![sid] =
                               IF ~ok THEN "idle"
                               ELSE IF old # NoRoom THEN "leave_sio"
                               ELSE "enter_sio"]
               /\ ev_cur' = [ev_cur EXCEPT ![sid] =
                                IF ~ok THEN NoEvCur
                                ELSE [room_id |-> room_id, password |-> password,
                                      old |-> old, ret |-> "join"]]
    /\ UNCHANGED <<active_connections, active_rooms, sio_rooms, roomless_seen, socketVars, evMsgVars>>

\* the leave_room event: handle_leave_room up to `await sio.leave_room`
EvLeaveRoom(sid, room_id) ==
    /\ ev_pc[sid] = "idle"
    /\ sid \in DOMAIN active_connections
    /\ IF room_id \in DOMAIN active_rooms /\ active_connections[sid] = room_id
       THEN /\ ev_pc' = [ev_pc EXCEPT ![sid] = "leave_sio"]
            /\ ev_cur' = [ev_cur EXCEPT ![sid] =
                             [NoEvCur EXCEPT !.old = room_id, !.ret = "done"]]
       ELSE UNCHANGED <<ev_pc, ev_cur>>
    /\ UNCHANGED <<active_connections, active_rooms, sio_rooms, ev_last,
                   roomless_seen, socketVars, evMsgVars>>

\* handle_leave_room resumes after sio.leave_room: user.room_id = None, then
\* it awaits the emit of user_left_room
EvLeaveSio(sid) ==
    /\ ev_pc[sid] = "leave_sio"
    /\ sio_rooms' = [sio_rooms EXCEPT ![sid] = @ \ {ev_cur[sid].old}]
    /\ active_connections' = set_room_id(sid, NoRoom)
    /\ ev_pc' = [ev_pc EXCEPT ![sid] = "leave_emit"]
    /\ UNCHANGED <<active_rooms, ev_cur, ev_last, roomless_seen, socketVars, evMsgVars>>

\* handle_leave_room resumes after its emits and returns: to the event, or to
\* handle_join_room, which goes on to `await sio.enter_room`
EvLeaveEmit(sid) ==
    /\ ev_pc[sid] = "leave_emit"
    /\ ev_pc' = [ev_pc EXCEPT ![sid] =
                    IF ev_cur[sid].ret = "join" THEN "enter_sio" ELSE "idle"]
    /\ ev_cur' = IF ev_cur[sid].ret = "join" THEN ev_cur
                 ELSE [ev_cur EXCEPT ![sid] = NoEvCur]
    /\ UNCHANGED <<active_connections, active_rooms, sio_rooms, ev_last,
                   roomless_seen, socketVars, evMsgVars>>

\* handle_join_room resumes after sio.enter_room: user.room_id = room_id, then
\* it awaits the emits of user_joined_room and of its system message
EvEnterSio(sid) ==
    /\ ev_pc[sid] = "enter_sio"
    /\ sio_rooms' = [sio_rooms EXCEPT ![sid] = @ \cup {ev_cur[sid].room_id}]
    /\ active_connections' = set_room_id(sid, ev_cur[sid].room_id)
    /\ ev_pc' = [ev_pc EXCEPT ![sid] = "room_info"]
    /\ UNCHANGED <<active_rooms, ev_cur, ev_last, roomless_seen, socketVars,
                   evMsgVars>>

\* room_messages[room_id][-50:]
ReplayLimit == 50

\* the last `limit` records of a sequence, in the order of the sequence
last_records(records, limit) ==
    SubSeq(records,
           IF limit < Len(records) THEN Len(records) - limit + 1 ELSE 1,
           Len(records))

\* Message.to_dict of the messages that room_info carries. room_messages also
\* holds the system messages of joins and leaves; they have no entry in
\* message_by_id, no event changes them, and ev_room_messages leaves them out.
replay(room_id) ==
    LET last == last_records(ev_room_messages[room_id], ReplayLimit) IN
    [i \in 1 .. Len(last) |->
        [id |-> last[i], deleted |-> message_by_id[last[i]].deleted]]

\* handle_join_room resumes after these emits: it builds room_info with the
\* users and the last messages of the room, emits it and returns
EvRoomInfo(sid) ==
    /\ ev_pc[sid] = "room_info"
    /\ ev_replay' = replay(ev_cur[sid].room_id)
    /\ ev_pc' = [ev_pc EXCEPT ![sid] = "idle"]
    /\ ev_cur' = [ev_cur EXCEPT ![sid] = NoEvCur]
    /\ UNCHANGED <<active_connections, active_rooms, sio_rooms, ev_last,
                   roomless_seen, socketVars, ev_room_messages, message_by_id,
                   ev_notice>>

\* handle_disconnect of a session that has no event in progress
EvDisconnect(sid) ==
    /\ ev_pc[sid] = "idle"
    /\ sid \in DOMAIN active_connections
    /\ sio_rooms' = [sio_rooms EXCEPT ![sid] = @ \ {active_connections[sid]}]
    /\ active_connections' = Del(active_connections, sid)
    /\ ev_pc' = [ev_pc EXCEPT ![sid] = "gone"]
    /\ UNCHANGED <<active_rooms, ev_cur, ev_last, roomless_seen, socketVars, evMsgVars>>

\* the sessions a reader finds in no room although they entered
\* handle_join_room in a room and have not come out of it
in_mid_move ==
    {s \in DOMAIN active_connections :
        /\ ev_pc[s] \in {"leave_sio", "leave_emit", "enter_sio"}
        /\ ev_cur[s].ret = "join"
        /\ ev_cur[s].old # NoRoom
        /\ \A r \in DOMAIN active_rooms : s \notin get_users_in_room(r)}

\* the get_rooms event: get_active_rooms counts the users of every room with
\* get_users_in_room while other coroutines are suspended at their awaits
EvGetRooms(sid) ==
    /\ ev_pc[sid] = "idle"
    /\ sid \in DOMAIN active_connections
    /\ roomless_seen' = roomless_seen \cup in_mid_move
    /\ UNCHANGED <<active_connections, active_rooms, sio_rooms, ev_pc, ev_cur,
                   ev_last, socketVars, evMsgVars>>

\* SpecEv: sessions that create, join and leave rooms, and read the room list
NextEv ==
    \E sid \in Sids :
        \/ EvConnect(sid)
        \/ \E ty \in {"public", "private"}, pw \in {"", "pw1"} :
              EvCreateRoom(sid, ty, pw)
        \/ \E r \in EvRoomIds, pw \in {"", "pw1"} : EvJoinRoom(sid, r, pw)
        \/ \E r \in EvRoomIds : EvLeaveRoom(sid, r)
        \/ EvLeaveSio(sid)
        \/ EvLeaveEmit(sid)
        \/ EvEnterSio(sid)
        \/ EvRoomInfo(sid)
        \/ EvDisconnect(sid)
        \/ EvGetRooms(sid)

SpecEv == Init /\ [][NextEv]_vars

\* ---------------------------------- SpecPw: the admission of both transports

PwSids == {1}

\* Room.check_password called on a Room object: Room.__init__ stores the type
\* and the password it is given as they are
RoomCheckPassword(room_type, stored, password) ==
    /\ pw_last' = [room |-> Room(room_type, stored, SERVER),
                   password |-> password, called |-> TRUE,
                   result |-> check_password(Room(room_type, stored, SERVER),
                                             password)]
    /\ UNCHANGED <<rooms, client_rooms, lock, sending, delivered, rm_last,
                   srvVars, msgVars, evVars>>

\* SpecPw: Room.check_password is called on rooms of every type and stored
\* password, and the event handlers create and join rooms with every type and
\* password
NextPw ==
    \/ \E ty \in {"public", "private"}, stored \in RMPasswords,
          pw \in Passwords :
          RoomCheckPassword(ty, stored, pw)
    \/ \E sid \in PwSids :
          \/ EvConnect(sid)
          \/ \E ty \in RoomTypes, pw \in EvPasswords : EvCreateRoom(sid, ty, pw)
          \/ \E r \in EvRoomIds, pw \in EvPasswords : EvJoinRoom(sid, r, pw)
          \/ EvLeaveSio(sid)
          \/ EvLeaveEmit(sid)
          \/ EvEnterSio(sid)
          \/ EvRoomInfo(sid)

SpecPw == Init /\ [][NextPw]_vars

\* ------------------------------------ claims about the event transport

\* C9: a session that joins a room while it is in another one is never found
\* in neither room by a concurrent reader of get_users_in_room.
C9_MoveIsAtomic == roomless_seen = {}

MaxEvMessages == 1

\* Message(room_id, user_id, username, content); the user id stands for the
\* user: a session's User object is made once, by handle_connect
EvMessage(room_id, user_id, content) ==
    [room_id |-> room_id, user_id |-> user_id, content |-> content,
     edited |-> FALSE, deleted |-> FALSE]

\* handle_delete_message: message.content = "[Bu mesaj silindi]"
DeletedContent == "[Bu mesaj silindi]"

\* the send_message event: handle_send_message refuses a message for a room
\* the user is not in; else the message is appended to the room's list and
\* indexed by its id before the emit
EvSendMessage(sid, room_id) ==
    /\ ev_pc[sid] = "idle"
    /\ sid \in DOMAIN active_connections
    /\ Cardinality(DOMAIN message_by_id) < MaxEvMessages
    /\ IF active_connections[sid] = NoRoom \/ active_connections[sid] # room_id
       THEN UNCHANGED <<ev_room_messages, message_by_id>>
       ELSE LET id == Cardinality(DOMAIN message_by_id) + 1 IN
            /\ ev_room_messages' =
                   [ev_room_messages EXCEPT ![room_id] = Append(@, id)]
            /\ message_by_id' =
                   Put(message_by_id, id, EvMessage(room_id, sid, "hi"))
    /\ UNCHANGED <<active_connections, active_rooms, sio_rooms, ev_pc, ev_cur,
                   ev_last, roomless_seen, socketVars, ev_replay, ev_notice>>

\* the update_message event: handle_update_message checks that the message
\* exists and that the user is its author, then changes it and emits
\* message_updated to the room
EvUpdateMessage(sid, message_id, new_content) ==
    /\ ev_pc[sid] = "idle"
    /\ sid \in DOMAIN active_connections
    /\ IF \/ message_id \notin DOMAIN message_by_id
          \/ message_by_id[message_id].user_id # sid
       THEN UNCHANGED <<message_by_id, ev_notice>>
       ELSE /\ message_by_id' = [message_by_id EXCEPT
                                   ![message_id].content = new_content,
                                   ![message_id].edited = TRUE]
            /\ ev_notice' = [event |-> "message_updated", id |-> message_id,
                             was_deleted |-> message_by_id[message_id].deleted]
    /\ UNCHANGED <<active_connections, active_rooms, sio_rooms, ev_pc, ev_cur,
                   ev_last, roomless_seen, socketVars, ev_room_messages,
                   ev_replay>>

\* the delete_message event: handle_delete_message makes the same two checks,
\* marks the message deleted, replaces its content and emits message_deleted;
\* the message stays in the room's list
EvDeleteMessage(sid, message_id) ==
    /\ ev_pc[sid] = "idle"
    /\ sid \in DOMAIN active_connections
    /\ IF \/ message_id \notin DOMAIN message_by_id
          \/ message_by_id[message_id].user_id # sid
       THEN UNCHANGED <<message_by_id, ev_notice>>
       ELSE /\ message_by_id' = [message_by_id EXCEPT
                                   ![message_id].deleted = TRUE,
                                   ![message_id].content = DeletedContent]
            /\ ev_notice' = [event |-> "message_deleted", id |-> message_id,
                             was_deleted |-> message_by_id[message_id].deleted]
    /\ UNCHANGED <<active_connections, active_rooms, sio_rooms, ev_pc, ev_cur,
                   ev_last, roomless_seen, socketVars, ev_room_messages,
                   ev_replay>>

\* SpecEvMsg: sessions that create and join public rooms and send, update and
\* delete messages
NextEvMsg ==
    \E sid \in Sids :
        \/ EvConnect(sid)
        \/ EvCreateRoom(sid, "public", "")
        \/ \E r \in EvRoomIds : EvJoinRoom(sid, r, "")
        \/ EvLeaveSio(sid)
        \/ EvLeaveEmit(sid)
        \/ EvEnterSio(sid)
        \/ EvRoomInfo(sid)
        \/ \E r \in EvRoomIds : EvSendMessage(sid, r)
        \/ \E i \in 1 .. MaxEvMessages : EvUpdateMessage(sid, i, "changed")
        \/ \E i \in 1 .. MaxEvMessages : EvDeleteMessage(sid, i)

SpecEvMsg == Init /\ [][NextEvMsg]_vars

\* ------------------------------------------- delete_room and its requester

\* the username each client sends, as the client spells it: "alice_3" is also
\* the name the server itself makes of a second "alice" when three sockets are
\* registered
DelUsername(s) ==
    CASE s = 2 -> <<"alice", 3>>
      [] s = 4 -> SERVER
      [] OTHER -> UName("alice")

\* first frames that carry these usernames
NamedAuthFrames(usernames) ==
    {[NoFrame EXCEPT !.kind = "auth", !.username = u] : u \in usernames}

\* the command each client sends: the first two create the room "R1", the
\* others delete it
DelFrames(s) ==
    IF s <= 2
    THEN {[NoFrame EXCEPT !.kind = "create_room", !.room = "R1",
                          !.room_type = "public"]}
    ELSE {[NoFrame EXCEPT !.kind = "delete_room", !.room = "R1"]}

\* SpecDel: clients that authenticate, create "R1" and delete it
NextDel ==
    \E s \in Sockets :
        \/ Connection(s)
        \/ \E f \in NamedAuthFrames({DelUsername(s)}) \cup DelFrames(s) :
               Recv(s, f)
        \/ CmdCreateRoom(s)
        \/ CmdDeleteCheck(s)
        \/ CmdDeleteRoom(s)

SpecDel == Init /\ [][NextDel]_vars

\* ------------------------------------- the idle sweep and failing sends

\* check_client_timeouts: the sweeper finds the socket idle for longer than
\* the timeout and closes it; the sweeper does no cleanup itself (close() does
\* not raise), recv() of the socket's handler thread fails on the closed
\* socket, the loop breaks and the finally block calls handle_disconnection.
\* self.active_clients has the keys of self.clients: both are written by the
\* accept loop and deleted together by handle_disconnection.
Sweep(s) ==
    /\ pc[s] = "recv"
    /\ s \in DOMAIN clients
    /\ cur' = [cur EXCEPT ![s] = [NoFrame EXCEPT !.kind = "timeout",
                                     !.before = Get(client_rooms, s)]]
    /\ pc' = [pc EXCEPT ![s] = "disc"]
    /\ UNCHANGED <<rmVars, clients, chat_left, msgVars, evVars, devVars>>

\* Room.broadcast when send_to_client returns False for the recipients in
\* failed: they are put in the list that broadcast_to_room returns, nothing
\* else is done for them. A frame whose send raised is listed in delivered
\* with the kind "send_failed".
broadcast_end_failing(t, failed) ==
    /\ lock = t
    /\ failed # {}
    /\ failed \subseteq sending.to
    /\ delivered' = [c \in Sockets |->
                        IF c \in failed
                        THEN Append(delivered[c],
                                    [sending.frame EXCEPT !.kind = "send_failed"])
                        ELSE IF c \in sending.to
                        THEN Append(delivered[c], sending.frame)
                        ELSE delivered[c]]
    /\ sending' = NoSend
    /\ lock' = 0

\* broadcast_to_room returns to handle_client with a non-empty list of failed
\* recipients: every caller drops the returned value and goes on
SendingFails(s) ==
    /\ pc[s] \in {"auth_sending", "message_sending", "edit_sending",
                  "leave_sending"}
    /\ \E failed \in SUBSET sending.to : broadcast_end_failing(s, failed)
    /\ pc' = [pc EXCEPT ![s] = after_sending(pc[s])]
    /\ cur' = IF after_sending(pc[s]) = "recv" THEN back_to_recv(s) ELSE cur
    /\ UNCHANGED <<rooms, client_rooms, rm_last, pw_last, clients, chat_left,
                   msgVars, evVars, devVars>>

\* a send to the socket has failed
send_failed(c) == was_sent(c, "send_failed")

\* the steps a handler thread takes by itself, once it has a frame or has
\* lost its connection
Handler(s) ==
    \/ AcceptRoomInfo(s)
    \/ HandleClient(s)
    \/ Authenticate(s)
    \/ AuthJoin(s)
    \/ AuthBroadcast(s)
    \/ Sending(s)
    \/ MessageRoom(s)
    \/ MessageAppend(s)
    \/ MessageGetRoom(s)
    \/ MessageBroadcast(s)
    \/ Disconnect(s)
    \/ DisconnectCleanup(s)

\* recv() on a connection to which a send has failed returns no data
BrokenClose(s) == send_failed(s) /\ Close(s)

\* SpecLive: clients that authenticate, post messages, go idle, lose their
\* connection or leave. Every handler thread keeps running, and a broken
\* connection is noticed by its own handler.
NextLive ==
    \E s \in CmdSockets :
        \/ Accept(s)
        \/ Handler(s)
        \/ \E f \in AuthFrames(ChatUsernames)
                      \cup MessageFrames(Get(clients, s)) : Recv(s, f)
        \/ Close(s)
        \/ Sweep(s)
        \/ SendingFails(s)

SpecLive ==
    /\ Init
    /\ [][NextLive]_vars
    /\ \A s \in CmdSockets : WF_vars(Handler(s)) /\ WF_vars(BrokenClose(s))

\* ------------------------------------------------ authentication, again

\* usernames that clients choose: nothing keeps a client from a name that
\* starts with "Misafir-"
AuthUsernames == {UName("alice"), UName("bob"), <<"Misafir-", 2>>}

\* the session takes part as an authenticated one: its handler has put it in
\* a room, which only the authentication block does for a new socket
authenticated(s) == s \in DOMAIN clients /\ s \in DOMAIN client_rooms

\* the session is registered and its disconnect path has not begun
live(s) ==
    /\ s \in DOMAIN clients
    /\ pc[s] \notin {"new", "disc", "disc_cleanup", "ended"}

\* frames a socket is sent before the clients stop sending frames
MaxAuthDelivered == 3

\* SpecAuth: clients that send frames with usernames of their choice, and
\* leave
NextAuth ==
    \E s \in CmdSockets :
        \/ Connection(s)
        \/ Disconnection(s)
        \/ /\ \A c \in Sockets : Len(delivered[c]) < MaxAuthDelivered
           /\ \E f \in NamedAuthFrames(AuthUsernames) : Recv(s, f)

SpecAuth == Init /\ [][NextAuth]_vars

\* ---------------------------------------------------- the tail of a log

\* limits that get_room_messages is called with
MaxLimit == 2

\* ------------------------------------------------- claims C11 .. C20

\* C12: no send to a recipient is in progress while the sending thread holds
\* the RoomManager lock.
C12_NoSendUnderLock == sending.to # {} => lock = 0

\* C14: when handle_disconnection has run to its end for a session, the
\* session is in no room and it is no longer in self.clients.
C14_DisconnectDropsSession ==
    \A s \in Sockets :
        pc[s] = "ended" => /\ s \notin DOMAIN client_rooms
                           /\ s \notin DOMAIN clients

\* C11: a delete_room command has removed a room only for a requester whose
\* username is the created_by of the room that was removed, or is "SERVER".
C11_OnlyOwnerDeletes ==
    \A s \in Sockets :
        (handled(s, "delete_room") /\ cur[s].result = "ok")
            => clients[s] \in {cur[s].owner, SERVER}

\* C13: a session that the sweeper has closed for idleness is eventually in
\* no room and absent from self.clients (and self.active_clients, which has
\* the same keys).
C13_SweptIsCleanedUp ==
    \A s \in CmdSockets :
        (pc[s] = "disc" /\ cur[s].kind = "timeout")
            ~> (s \notin DOMAIN client_rooms /\ s \notin DOMAIN clients)

\* C15: a recipient to which a send failed during a fan-out is eventually in
\* no room and absent from self.clients.
C15_FailedRecipientIsDropped ==
    \A c \in CmdSockets :
        send_failed(c)
            ~> (c \notin DOMAIN client_rooms /\ c \notin DOMAIN clients)

\* C19: no two live sessions have the same username, placeholder names
\* included.
C19_UniqueUsernames ==
    \A s, t \in Sockets :
        (s # t /\ live(s) /\ live(t)) => clients[s] # clients[t]

\* C20: no step changes the username of a session that has authenticated.
C20_AuthenticatesOnce ==
    [][\A s \in Sockets :
          (authenticated(s) /\ s \in DOMAIN clients') => clients'[s] = clients[s]]_vars

\* C18: get_room_messages(room, limit) is the last `limit` non-deleted
\* messages of the room's list in append order, oldest first, for every room
\* and limit.
C18_TailOldestFirst ==
    \A n \in DOMAIN room_messages, limit \in 1 .. MaxLimit :
        get_room_messages(n, limit)
            = last_records(SelectSeq(room_messages[n],
                                     LAMBDA m : m \notin deleted_messages),
                           limit)

\* C16: no update_message or delete_message acts on a message that is already
\* deleted: none is notified to the room, and a deleted message keeps the
\* content and the edited flag its deletion left it with.
C16_DeletedIsFinal ==
    /\ ev_notice.event # None => ~ev_notice.was_deleted
    /\ \A i \in DOMAIN message_by_id :
          message_by_id[i].deleted => message_by_id[i].content = DeletedContent

\* C17: the messages that room_info replays to a session that joins a room
\* hold no deleted message.
C17_ReplayHidesDeleted ==
    \A i \in 1 .. Len(ev_replay) : ~ev_replay[i].deleted

\* ------------------------------------------------- claims C21 .. C30

\* --------------------------------------------- devices that reconnect

\* device ids a first frame may carry (None: it carries none)
DeviceIds == {None, "d1"}

\* first frames with a device id
DeviceAuthFrames ==
    {[NoFrame EXCEPT !.kind = "auth", !.username = UName(u), !.device_id = d] :
        u \in ChatUsernames, d \in DeviceIds}

\* SpecDev: clients that authenticate with or without a device id, leave and
\* come back
NextDev ==
    \E s \in CmdSockets :
        \/ Connection(s)
        \/ Disconnection(s)
        \/ \E f \in DeviceAuthFrames : Recv(s, f)

SpecDev == Init /\ [][NextDev]_vars

C22_ReconnectJoinsDefault ==
    \A s \in Sockets :
        (cur[s].kind = "auth" /\ ~Falsy(cur[s].device_id))
            => pc[s] \notin {"disc", "disc_cleanup"}

\* C23: a command that is refused as a bad request (an empty roomName) does
\* not end its sender's session: the handler does not go to the disconnection
\* and the sender is still in a room.
C23_BadRequestKeepsSession ==
    \A s \in Sockets :
        cur[s].result = "badrequest" =>
            /\ pc[s] \notin {"disc", "disc_cleanup"}
            /\ s \in DOMAIN client_rooms

\* C24: a refused update or delete request (unknown id, another author, a
\* deleted message) sends exactly one error frame to the requester.
C24_RefusedEditIsAnswered ==
    [][\A s \in Sockets :
          (pc[s] \in {"update", "delete"} /\ pc'[s] = "recv") =>
              /\ Len(delivered'[s]) = Len(delivered[s]) + 1
              /\ delivered'[s][Len(delivered'[s])].kind = "error"]_vars

\* ------------------------------------------------- rooms and their names

\* the names the clients of the event transport ask for
EvRoomNames == {"R1", "R2"}

\* SpecEvNames: sessions that create rooms by name and read the room list
NextEvNames ==
    \E sid \in Sids :
        \/ EvConnect(sid)
        \/ \E n \in EvRoomNames, ty \in {"public", "private"}, pw \in {"", "pw1"} :
              EvCreateRoomNamed(sid, n, ty, pw)
        \/ EvGetRooms(sid)

SpecEvNames == Init /\ [][NextEvNames]_vars

\* C25: no two rooms have the same name.
C25_RoomNamesUnique ==
    \A r1, r2 \in DOMAIN active_rooms :
        active_rooms[r1].name = active_rooms[r2].name => r1 = r2

\* ------------------------------------------- messages that bring their id

\* a chat message that carries the messageId of a message that exists
IdMessageFrames(username) ==
    {[NoFrame EXCEPT !.kind = "message", !.username = username, !.text = "again",
                     !.id = i] : i \in 1 .. next_id - 1}

\* SpecIds: clients that authenticate and post messages, with and without a
\* messageId of their own
NextIds ==
    \E s \in CmdSockets :
        \/ Connection(s)
        \/ \E f \in AuthFrames(ChatUsernames)
                      \cup MessageFrames(Get(clients, s))
                      \cup IdMessageFrames(Get(clients, s)) : Recv(s, f)
        \/ MessageRoom(s)
        \/ MessageAppend(s)
        \/ MessageGetRoom(s)
        \/ MessageBroadcast(s)

SpecIds == Init /\ [][NextIds]_vars

\* C26: a post never stores its record under an id that is in the index
\* already.
C26_IdsNeverReused ==
    [][\A s \in Sockets :
          (pc[s] = "message_append" /\ pc'[s] = "message_getroom") =>
              cur'[s].id \notin DOMAIN message_lookup]_vars

\* C27: when the fan-out of a message of a session in a room ends, the
\* message frame has been delivered to every occupant of the room, the sender
\* included.
C27_SenderIsDelivered ==
    [][\A s \in Sockets :
          (pc[s] = "message_sending" /\ pc'[s] = "recv" /\ sending # NoSend) =>
              \A c \in rooms[sending.room].clients :
                  /\ Len(delivered'[c]) = Len(delivered[c]) + 1
                  /\ delivered'[c][Len(delivered'[c])] = Fr("message", s, cur[s].id)]_vars

\* ------------------------------------------- publishers and a subscriber

\* chat frames the clients of SpecOrder send between them
MaxOrderFrames == 3

\* the sockets that post; the others only listen
Publishers == {1, 2}

\* the username each client sends
OrderUsername(s) == IF s = 1 THEN UName("alice") ELSE UName("bob")

InitOrder == InitRM /\ InitMH /\ InitSrvWith(MaxOrderFrames) /\ InitEv

\* SpecOrder: clients that authenticate in "Genel", two of which post
NextOrder ==
    \E s \in ChatSockets :
        \/ Connection(s)
        \/ \E f \in NamedAuthFrames({OrderUsername(s)}) : Recv(s, f)
        \/ /\ s \in Publishers
           /\ \E f \in MessageFrames(Get(clients, s)) : Recv(s, f)
        \/ MessageRoom(s)
        \/ MessageAppend(s)
        \/ MessageGetRoom(s)
        \/ MessageBroadcast(s)

SpecOrder == InitOrder /\ [][NextOrder]_vars

\* the positions of the message frames of publisher p in what was sent to c
FramesOf(c, p) ==
    {i \in 1 .. Len(delivered[c]) :
        delivered[c][i].kind = "message" /\ delivered[c][i].by = p}

\* C28: what a socket is sent holds the messages of each publisher in the
\* order the publisher posted them and each at most once, and the fan-out of
\* a message sends the frame to every other occupant of the room.
C28_PerSenderOrder ==
    /\ [](\A c, p \in Sockets :
             \A i, j \in FramesOf(c, p) :
                 i < j => delivered[c][i].id < delivered[c][j].id)
    /\ [][\A s \in Sockets :
             (pc[s] = "message_sending" /\ pc'[s] = "recv") =>
                 /\ sending # NoSend
                 /\ \A c \in rooms[sending.room].clients \ {s} :
                       delivered'[c] = Append(delivered[c],
                                              Fr("message", s, cur[s].id))]_vars

\* C28 witness: a subscriber was sent two messages of one publisher and,
\* between them, a message of another
C28_Witness ==
    \E c, p, q \in Sockets :
        /\ p # q
        /\ \E i, j \in FramesOf(c, p), k \in FramesOf(c, q) : i < k /\ k < j

\* ------------------------------------------------ edits and their history

\* the earlier versions the event transport holds of a message: Message has
\* no field for them, and handle_update_message keeps original_content in a
\* local that is only logged
ev_version_history(message_id) == <<>>

\* C29: a message that was edited has at least one earlier version in its
\* version history.
C29_EditKeepsSnapshot ==
    \A i \in DOMAIN message_by_id :
        message_by_id[i].edited => Len(ev_version_history(i)) >= 1

\* C30: a message_deleted notice is emitted only by the first delete of a
\* message: never for a message that was deleted already.
C30_DeleteNotifiesOnce ==
    ev_notice.event = "message_deleted" => ~ev_notice.was_deleted

\* ------------------------------------------------- claims C31 .. C40

EvSuspended == {"leave_sio", "leave_emit", "enter_sio", "room_info"}

\* handle_disconnect of a session whose event handler is suspended at an
\* await: the session leaves the room it is in and is taken out of
\* active_connections; the suspended handler is not told and resumes later
EvDrop(sid) ==
    /\ ev_pc[sid] \in EvSuspended
    /\ sid \in DOMAIN active_connections
    /\ sio_rooms' = [sio_rooms EXCEPT ![sid] = @ \ {active_connections[sid]}]
    /\ active_connections' = Del(active_connections, sid)
    /\ UNCHANGED <<active_rooms, ev_pc, ev_cur, ev_last, roomless_seen,
                   socketVars, evMsgVars>>

\* the session was dropped while its handler is suspended
dropped(sid) == sid \notin DOMAIN active_connections /\ ev_pc[sid] \in EvSuspended

\* sio.enter_room for a session the server no longer knows: handle_join_room
\* makes the call without looking at active_connections, so whether the sid
\* is put in the room (EvEnterSio) or the call raises and ends the handler
\* (this action) is left to the Socket.IO server
EvEnterRefused(sid) ==
    /\ dropped(sid)
    /\ ev_pc[sid] = "enter_sio"
    /\ ev_pc' = [ev_pc EXCEPT ![sid] = "idle"]
    /\ UNCHANGED <<active_connections, active_rooms, sio_rooms, ev_cur, ev_last,
                   roomless_seen, socketVars, evMsgVars>>

\* SpecEvDrop: sessions that create and join public rooms and send messages,
\* and that disconnect at any moment
NextEvDrop ==
    \E sid \in Sids :
        \/ EvConnect(sid)
        \/ EvCreateRoom(sid, "public", "")
        \/ \E r \in EvRoomIds : EvJoinRoom(sid, r, "")
        \/ EvLeaveSio(sid)
        \/ EvLeaveEmit(sid)
        \/ EvEnterSio(sid)
        \/ EvRoomInfo(sid)
        \/ \E r \in EvRoomIds : EvSendMessage(sid, r)
        \/ EvDisconnect(sid)
        \/ EvDrop(sid)
        \/ EvEnterRefused(sid)

SpecEvDrop == Init /\ [][NextEvDrop]_vars

\* C32: a handle_join_room that resumes for a session that was dropped in the
\* meantime returns without emitting room_info for it.
C32_DroppedHandlerAborts ==
    [][\A sid \in Sids :
          (dropped(sid) /\ ev_pc[sid] = "room_info" /\ ev_pc'[sid] = "idle")
              => ev_replay' = ev_replay]_vars

MaxMHMessages == 2

\* MessageHandler.handle_message of a new message, called for a socket that
\* is in a room: the message is stored under the name of that room
MH_handle_message(s) ==
    /\ next_id <= MaxMHMessages
    /\ Get(client_rooms, s) # None
    /\ LET room_name == client_rooms[s] IN
       /\ room_messages' = new_message_room_messages(
                               room_name, next_id,
                               room_name \notin DOMAIN room_messages)
       /\ message_lookup' = new_message_lookup(room_name, next_id,
                                               UName("alice"), "hi", s)
       /\ append_occ' = Put(append_occ, next_id,
                            IF room_name \in DOMAIN rooms
                            THEN rooms[room_name].clients ELSE {})
    /\ next_id' = next_id + 1
    /\ UNCHANGED <<rmVars, srvVars, deleted_messages, message_history, evVars>>

\* SpecMH: RoomManager and MessageHandler driven through their public methods
\* in any order
NextMH ==
    \/ \E u \in RMCreators :
          RM_create_room("R1", "public", None, u)
            /\ UNCHANGED <<srvVars, msgVars, evVars>>
    \/ RM_delete_room("R1") /\ UNCHANGED <<srvVars, msgVars, evVars>>
    \/ \E s \in RMSockets, n \in RoomNames :
          RM_join_room(s, n, None) /\ UNCHANGED <<srvVars, msgVars, evVars>>
    \/ \E s \in RMSockets : MH_handle_message(s)

SpecMH == Init /\ [][NextMH]_vars

\* C33: a room that is created has an empty history: get_room_messages
\* returns no message for its name.
C33_NewRoomHasNoHistory ==
    [][\A n \in RoomNames :
          (n \notin DOMAIN rooms /\ n \in DOMAIN rooms')
              => get_room_messages(n, MaxMHMessages) = <<>>]_vars

\* ------------------------------------------ edits by clients that move

\* the room commands of clients that move between rooms
MoveFrames ==
    {[NoFrame EXCEPT !.kind = "create_room", !.room = "R1",
                     !.room_type = "public"],
     [NoFrame EXCEPT !.kind = "join_room", !.room = "R1"],
     [NoFrame EXCEPT !.kind = "leave_room"]}

\* SpecMove: clients that authenticate, post, update and delete messages,
\* create, join and leave rooms, and disconnect
NextMove ==
    \/ NextEdit
    \/ \E s \in CmdSockets :
          \/ \E f \in MoveFrames : Recv(s, f)
          \/ CmdCreateRoom(s)
          \/ CmdJoinRoom(s)
          \/ CmdLeaveRoom(s)
          \/ LeaveBroadcast(s)
          \/ LeaveJoin(s)

SpecMove == Init /\ [][NextMove]_vars

C35_LeaveRejoinsDefault ==
    \A s \in Sockets :
        (/\ cur[s].kind = "leave_room"
         /\ cur[s].result = "ok"
         /\ pc[s] \notin {"leave_bcast", "leave_sending", "leave_join"})
            => /\ Get(client_rooms, s) = Genel
               /\ s \in rooms[Genel].clients

\* --------------------------------------- a room deleted under an occupant

\* the username each client sends: the third takes the name "SERVER"
RehomeUsername(s) ==
    CASE s = 1 -> UName("alice")
      [] s = 2 -> UName("bob")
      [] OTHER -> SERVER

\* the command each client sends: the first creates "R1", the second joins
\* it, the others delete it
RehomeFrames(s) ==
    CASE s = 1 -> {[NoFrame EXCEPT !.kind = "create_room", !.room = "R1",
                                   !.room_type = "public"]}
      [] s = 2 -> {[NoFrame EXCEPT !.kind = "join_room", !.room = "R1"]}
      [] OTHER -> {[NoFrame EXCEPT !.kind = "delete_room", !.room = "R1"]}

\* the steps the handler thread of a client of SpecRehome takes by itself
RehomeHandler(s) ==
    \/ AcceptRoomInfo(s)
    \/ HandleClient(s)
    \/ Authenticate(s)
    \/ AuthJoin(s)
    \/ AuthBroadcast(s)
    \/ Sending(s)
    \/ CmdCreateRoom(s)
    \/ CmdJoinRoom(s)
    \/ CmdDeleteCheck(s)
    \/ CmdDeleteRoom(s)
    \/ Disconnect(s)
    \/ DisconnectCleanup(s)

\* SpecRehome: a client creates "R1", a client joins it and a client deletes
\* it; every handler thread keeps running
NextRehome ==
    \E s \in ChatSockets :
        \/ Accept(s)
        \/ RehomeHandler(s)
        \/ \E f \in NamedAuthFrames({RehomeUsername(s)}) \cup RehomeFrames(s) :
               Recv(s, f)

SpecRehome ==
    /\ Init
    /\ [][NextRehome]_vars
    /\ \A s \in ChatSockets : WF_vars(RehomeHandler(s))

\* the delete_room of d has taken c out of the room it had joined
rehoming_due(c, d) ==
    /\ pc[d] = "disc" /\ cur[d].kind = "delete_room" /\ cur[d].result = "ok"
    /\ pc[c] = "disc" /\ cur[c].kind = "join_room" /\ cur[c].result = "ok"
    /\ cur[c].room = cur[d].room
    /\ c \in DOMAIN clients
    /\ c \notin DOMAIN client_rooms

\* C36: a session that a successful delete_room took out of its room is
\* eventually an occupant of "Genel".
C36_OccupantsAreRehomed ==
    \A c, d \in ChatSockets :
        rehoming_due(c, d) ~> (Get(client_rooms, c) = Genel)

\* ------------------------------------- the manager lock and nested calls

\* a thread that has reached `with self.lock:` of broadcast_to_room, called
\* by the server ("btr_wait") or by broadcast_to_client_room ("bcr_wait")
LockWaiting == {"btr_wait", "bcr_wait"}

\* a thread inside the with-block of broadcast_to_room
LockSending == {"btr_sending", "bcr_sending"}

\* broadcast_to_room("Genel", frame) is called by thread t, which reaches
\* `with self.lock:`
RM_call_broadcast_to_room(t) ==
    /\ pc[t] = "new"
    /\ \A c \in Sockets : Len(delivered[c]) < MaxBroadcasts
    /\ pc' = [pc EXCEPT ![t] = "btr_wait"]
    /\ UNCHANGED <<rmVars, clients, cur, chat_left, devVars>>

\* broadcast_to_client_room(client_socket, frame), called by the thread of
\* that socket: it takes the lock and looks the room up; without a room it
\* returns, otherwise it calls broadcast_to_room inside its own with-block
RM_broadcast_to_client_room(t) ==
    /\ pc[t] = "new"
    /\ lock_free
    /\ LET room_name == Get(client_rooms, t) IN
       IF Falsy(room_name) \/ room_name \notin DOMAIN rooms
       THEN /\ rm_last' = Last("broadcast_to_client_room", None, "none")
            /\ UNCHANGED <<lock, pc>>
       ELSE /\ lock' = t
            /\ pc' = [pc EXCEPT ![t] = "bcr_wait"]
            /\ UNCHANGED rm_last
    /\ UNCHANGED <<rooms, client_rooms, sending, delivered, pw_last, clients,
                   cur, chat_left, devVars>>

\* `with self.lock:` of broadcast_to_room lets a waiting thread in
RM_broadcast_to_room_enter(t) ==
    /\ pc[t] \in LockWaiting
    /\ IF pc[t] = "bcr_wait"
       THEN broadcast_begin(t, Get(client_rooms, t), Fr("frame", 0, 0), t)
       ELSE broadcast_begin(t, Genel, Fr("frame", 0, 0), 0)
    /\ pc' = [pc EXCEPT ![t] = IF pc[t] = "bcr_wait" THEN "bcr_sending"
                                ELSE "btr_sending"]
    /\ UNCHANGED <<rooms, client_rooms, delivered, rm_last, pw_last, clients,
                   cur, chat_left, devVars>>

\* the fan-out is made and broadcast_to_room returns, releasing the lock
RM_broadcast_to_room_exit(t) ==
    /\ pc[t] \in LockSending
    /\ broadcast_end(t)
    /\ rm_last' = Last("broadcast_to_room", sending.room,
                       IF sending.room = None THEN "none" ELSE "ok")
    /\ pc' = [pc EXCEPT ![t] = "new"]
    /\ UNCHANGED <<rooms, client_rooms, pw_last, clients, cur, chat_left,
                   devVars>>

\* SpecLock: threads that create, join and leave rooms and broadcast through
\* both broadcast methods of RoomManager
NextLock ==
    \/ \E u \in RMCreators :
          RM_create_room("R1", "public", None, u)
            /\ UNCHANGED <<srvVars, msgVars, evVars>>
    \/ \E s \in RMSockets, n \in RoomNames :
          RM_join_room(s, n, None) /\ UNCHANGED <<srvVars, msgVars, evVars>>
    \/ \E s \in RMSockets :
          RM_leave_room(s) /\ UNCHANGED <<srvVars, msgVars, evVars>>
    \/ \E t \in RMSockets :
          RM_call_broadcast_to_room(t) /\ UNCHANGED <<msgVars, evVars>>
    \/ \E t \in RMSockets :
          RM_broadcast_to_client_room(t) /\ UNCHANGED <<msgVars, evVars>>
    \/ \E t \in RMSockets :
          RM_broadcast_to_room_enter(t) /\ UNCHANGED <<msgVars, evVars>>
    \/ \E t \in RMSockets :
          RM_broadcast_to_room_exit(t) /\ UNCHANGED <<msgVars, evVars>>

SpecLock == Init /\ [][NextLock]_vars

\* C38: no thread waits at `with self.lock:` for the lock it holds itself.
C38_NoSelfWait ==
    \A t \in RMSockets : ~(pc[t] \in LockWaiting /\ lock = t)

\* ------------------------------------------- the disconnect path, again

\* the user_disconnect notices about the session of s that socket c was sent
disconnect_notices(c, s) ==
    Cardinality({i \in DOMAIN delivered[c] :
                    /\ delivered[c][i].kind = "user_disconnect"
                    /\ delivered[c][i].by = s})

\* C39: when the disconnect path has run for a session, whoever invoked it,
\* no socket was sent more than one user_disconnect notice about the session
\* and the session is no longer in self.clients.
C39_DisconnectedOnceAndGone ==
    \A s \in CmdSockets :
        pc[s] = "ended" =>
            /\ \A c \in Sockets : disconnect_notices(c, s) <= 1
            /\ s \notin DOMAIN clients

\* --------------------------------------------- the name of the server

\* C40: no socket in self.clients has the username "SERVER".
C40_NobodyIsServer == \A s \in DOMAIN clients : clients[s] # SERVER

====
